---- MODULE Spec2Model ----
(***************************************************************************)
(* Model of the wongoji (manuscript paper) layout engine of src/app.js:    *)
(* normalizeText, tokenizeParagraph, packDigits and layout with its inner  *)
(* closures pushCell, padToLineEnd, pushUsedBlank, atLineStart,            *)
(* trySharePunctuationWithPreviousBox and placeToken.                      *)
(*                                                                         *)
(* A character is a one-element name ("a", "SP", "ELL", ...); a string     *)
(* (a paragraph, a token, a cell's char) is a sequence of characters, so   *)
(* that s.length is Len(s), s + t is s \o t and s.slice is SubSeq.         *)
(***************************************************************************)
EXTENDS Integers, Sequences, FiniteSets, TLC

\* ------------------------------------------------------------------------
\* Bounds of the model
\* ------------------------------------------------------------------------
MaxLen == 4
MaxWidth == 3

\* ------------------------------------------------------------------------
\* Characters
\* ------------------------------------------------------------------------
SP == "SP"
TAB == "TAB"
LF == "LF"
CR == "CR"
ELL == "ELL"
DASH == "DASH"
MIDDOT == "MIDDOT"

\* the characters the input text is drawn from: an ordinary letter, a space,
\* a digit, one sentence-closing mark, one no-space-after mark, U+2026,
\* U+2015 and the line feed; and, in the shorter texts, the tab and the
\* carriage return as well
CoreAlphabet == {"a", SP, "1", "!", ".", ELL, DASH, LF}

Alphabet == CoreAlphabet \cup {TAB, CR}

Digits == {"0", "1", "2", "3", "4", "5", "6", "7", "8", "9"}

Undefined == <<"undefined">>

Str(c) == <<c>>

\* ------------------------------------------------------------------------
\* DEFAULTS
\* ------------------------------------------------------------------------
requireBlankAfter == {Str("?"), Str("!")}

forbidTypedSpaceAfter == {Str("."), Str(","), Str(":"), Str(";")}

shareablePunct == {Str("."), Str(","), Str("?"), Str("!"), Str(":"), Str(";"),
                   Str(ELL), Str(")"), Str("]"), Str("RDQUO"), Str("RSQUO"),
                   Str("RCORNER"), Str("RWCORNER"), Str("RDANGLE")}

EllipsisToken == <<ELL, ELL>>

twoBoxTokens == {EllipsisToken, Str(DASH)}

\* ------------------------------------------------------------------------
\* String helpers
\* ------------------------------------------------------------------------
Min(a, b) == IF a < b THEN a ELSE b

\* s.slice(from, to) with 0-based from, exclusive to, clamped to the length
Slice(s, from, to) == SubSeq(s, from + 1, Min(to, Len(s)))

RECURSIVE ReplaceCRLF(_)
ReplaceCRLF(s) ==
    IF s = <<>> THEN <<>>
    ELSE IF Len(s) >= 2 /\ s[1] = CR /\ s[2] = LF
         THEN <<LF>> \o ReplaceCRLF(SubSeq(s, 3, Len(s)))
         ELSE <<s[1]>> \o ReplaceCRLF(Tail(s))

ReplaceCR(s) == [k \in 1..Len(s) |-> IF s[k] = CR THEN LF ELSE s[k]]

Null == <<"null">>

\* s || "": an absent text counts as the empty string
OrEmpty(s) == IF s = Undefined \/ s = Null THEN <<>> ELSE s

\* normalizeText replacing the lone carriage returns first
normalizeText_CRFirst(s) == ReplaceCRLF(ReplaceCR(OrEmpty(s)))

normalizeText(s) == ReplaceCR(ReplaceCRLF(OrEmpty(s)))

\* norm.split("\n"): always at least one (possibly empty) piece
RECURSIVE SplitAcc(_, _, _)
SplitAcc(s, k, cur) ==
    IF k > Len(s) THEN <<cur>>
    ELSE IF s[k] = LF THEN <<cur>> \o SplitAcc(s, k + 1, <<>>)
         ELSE SplitAcc(s, k + 1, Append(cur, s[k]))

Split(s) == SplitAcc(s, 1, <<>>)

\* ------------------------------------------------------------------------
\* tokenizeParagraph: the loop over i (0-based), tokens accumulated in order
\* ------------------------------------------------------------------------
RECURSIVE TokenizeFrom(_, _)
TokenizeFrom(para, i) ==
    IF i >= Len(para) THEN <<>>
    ELSE IF Slice(para, i, i + 6) = EllipsisToken
         THEN <<EllipsisToken>> \o TokenizeFrom(para, i + 6)
         ELSE <<Str(para[i + 1])>> \o TokenizeFrom(para, i + 1)

tokenizeParagraph(para) == TokenizeFrom(para, 0)

\* ------------------------------------------------------------------------
\* packDigits: the loop over the tokens with out and digitBuf
\* ------------------------------------------------------------------------
IsDigitToken(t) == Len(t) = 1 /\ t[1] \in Digits

\* PackFrom without the flush of the leftover digits after the loop
RECURSIVE PackFrom_DropsLeftover(_, _, _, _, _)
PackFrom_DropsLeftover(tokens, k, out, digitBuf, dpb) ==
    IF k > Len(tokens)
    THEN out
    ELSE LET t == tokens[k] IN
         IF IsDigitToken(t)
         THEN LET buf == digitBuf \o t IN
              IF Len(buf) = dpb
              THEN PackFrom_DropsLeftover(tokens, k + 1, Append(out, buf), <<>>, dpb)
              ELSE PackFrom_DropsLeftover(tokens, k + 1, out, buf, dpb)
         ELSE IF Len(digitBuf) > 0
              THEN PackFrom_DropsLeftover(tokens, k + 1, Append(Append(out, digitBuf), t), <<>>, dpb)
              ELSE PackFrom_DropsLeftover(tokens, k + 1, Append(out, t), <<>>, dpb)

RECURSIVE PackFrom(_, _, _, _, _)
PackFrom(tokens, k, out, digitBuf, dpb) ==
    IF k > Len(tokens)
    THEN IF Len(digitBuf) > 0 THEN Append(out, digitBuf) ELSE out
    ELSE LET t == tokens[k] IN
         IF IsDigitToken(t)
         THEN LET buf == digitBuf \o t IN
              IF Len(buf) = dpb
              THEN PackFrom(tokens, k + 1, Append(out, buf), <<>>, dpb)
              ELSE PackFrom(tokens, k + 1, out, buf, dpb)
         ELSE IF Len(digitBuf) > 0
              THEN PackFrom(tokens, k + 1, Append(Append(out, digitBuf), t), <<>>, dpb)
              ELSE PackFrom(tokens, k + 1, Append(out, t), <<>>, dpb)

packDigits(tokens, dpb) == PackFrom(tokens, 1, <<>>, <<>>, dpb)

\* ------------------------------------------------------------------------
\* Cells and the placer's primitives; a placer state is [cells, col]
\* ------------------------------------------------------------------------
makeCell(char, used) == [char |-> char, used |-> used]

\* a % b of two integers, a >= 0 and b # 0: the sign is the dividend's
JsMod(a, b) == IF b > 0 THEN a % b ELSE a % (0 - b)

pushCell(st, cell, w) ==
    [cells |-> Append(st.cells, cell), col |-> JsMod(st.col + 1, w)]

RECURSIVE PushMany(_, _, _, _)
PushMany(st, cell, n, w) ==
    IF n <= 0 THEN st ELSE PushMany(pushCell(st, cell, w), cell, n - 1, w)

\* padToLineEnd filling one cell too many
padToLineEnd_Long(st, w) ==
    IF st.col = 0 THEN st
    ELSE PushMany(st, makeCell(<<>>, FALSE), w - st.col + 1, w)

\* padToLineEnd without the early return at col = 0
padToLineEnd_NoGuard(st, w) ==
    PushMany(st, makeCell(<<>>, FALSE), w - st.col, w)

\* padToLineEnd filling one cell too few
padToLineEnd_Short(st, w) ==
    IF st.col = 0 THEN st
    ELSE PushMany(st, makeCell(<<>>, FALSE), w - st.col - 1, w)

padToLineEnd(st, w) ==
    IF st.col = 0 THEN st
    ELSE PushMany(st, makeCell(<<>>, FALSE), w - st.col, w)

pushUsedBlank(st, w) == pushCell(st, makeCell(<<>>, TRUE), w)

\* atLineStart answering yes at every column
atLineStart_Always(st) == TRUE

atLineStart(st) == st.col = 0

\* CanShare without the test that the previous cell is used
CanShare_IgnoresUsed(st, punct) ==
    /\ punct \in shareablePunct
    /\ atLineStart(st)
    /\ Len(st.cells) # 0

\* the condition under which trySharePunctuationWithPreviousBox returns true
CanShare(st, punct) ==
    /\ punct \in shareablePunct
    /\ atLineStart(st)
    /\ Len(st.cells) # 0
    /\ st.cells[Len(st.cells)].used

\* SharePunct writing into the first cell instead of the last
SharePunct_IntoFirst(st, punct) ==
    [st EXCEPT !.cells[1].char = @ \o punct]

\* SharePunct overwriting the previous cell's content
SharePunct_Overwrites(st, punct) ==
    [st EXCEPT !.cells[Len(st.cells)].char = punct]

\* its effect when it does: prev.char = prev.char + punct
SharePunct(st, punct) ==
    [st EXCEPT !.cells[Len(st.cells)].char = @ \o punct]

IsSpaceToken(t) == t = Str(SP) \/ t = Str(TAB)

\* glyphStart comparing the column with the width instead of width - 1
glyphStart_OffByOne(st, w) == IF st.col = w THEN padToLineEnd(st, w) ELSE st

\* a two-box token whose first cell would be the row's last starts a new row
glyphStart(st, w) == IF st.col = w - 1 THEN padToLineEnd(st, w) ELSE st

\* blankAfter that does not look at the next token
blankAfter_Always(st, token, nextToken, w) ==
    IF token \in requireBlankAfter THEN pushUsedBlank(st, w) ELSE st

\* the used blank after ? and !, only when the paragraph continues
blankAfter(st, token, nextToken, w) ==
    IF token \in requireBlankAfter /\ nextToken # Undefined
    THEN pushUsedBlank(st, w) ELSE st

\* placeSpace without the line-start test
placeSpace_AnyColumn(st, w, countSpaces) ==
    IF ~countSpaces THEN st ELSE pushUsedBlank(st, w)

\* a space or tab: skipped when spaces are not counted or at a line start
placeSpace(st, w, countSpaces) ==
    IF ~countSpaces THEN st
    ELSE IF atLineStart(st) THEN st
    ELSE pushUsedBlank(st, w)

placeToken(st, token, nextToken, w, countSpaces) ==
    IF IsSpaceToken(token)
    THEN placeSpace(st, w, countSpaces)
    ELSE IF token \in twoBoxTokens
    THEN LET s1 == glyphStart(st, w)
             s2 == pushCell(s1, makeCell(token, TRUE), w)
         IN  pushCell(s2, makeCell(Str(MIDDOT), TRUE), w)
    ELSE IF token \in shareablePunct /\ atLineStart(st) /\ CanShare(st, token)
    THEN blankAfter(SharePunct(st, token), token, nextToken, w)
    ELSE blankAfter(pushCell(st, makeCell(token, TRUE), w), token, nextToken, w)

\* ------------------------------------------------------------------------
\* The bodies of layout's two loops as functions of the placer state
\* ------------------------------------------------------------------------

\* paraStart that indents an empty paragraph too
paraStart_IndentsEmpty(st, para, indent, w) ==
    LET s1 == IF ~atLineStart(st) THEN padToLineEnd(st, w) ELSE st IN
    IF indent > 0
    THEN PushMany(s1, makeCell(<<>>, TRUE), indent, w)
    ELSE s1

\* paraStart whose indent loop stops one cell early
paraStart_ShortIndent(st, para, indent, w) ==
    LET s1 == IF ~atLineStart(st) THEN padToLineEnd(st, w) ELSE st IN
    IF Len(para) > 0 /\ indent > 0
    THEN PushMany(s1, makeCell(<<>>, TRUE), indent - 1, w)
    ELSE s1

\* paragraph loop, before tokenizing: pad to a fresh line, then the indent
paraStart(st, para, indent, w) ==
    LET s1 == IF ~atLineStart(st) THEN padToLineEnd(st, w) ELSE st IN
    IF Len(para) > 0 /\ indent > 0
    THEN PushMany(s1, makeCell(<<>>, TRUE), indent, w)
    ELSE s1

NextOf(tokens, i) == IF i + 1 < Len(tokens) THEN tokens[i + 2] ELSE Undefined

\* SkipsNext without the test that the next token is whitespace
SkipsNext_AnyNext(tokens, i) ==
    tokens[i + 1] \in requireBlankAfter \cup forbidTypedSpaceAfter

\* does the token loop skip the whitespace token after tokens[i] (0-based i)
SkipsNext(tokens, i) ==
    /\ tokens[i + 1] \in requireBlankAfter \cup forbidTypedSpaceAfter
    /\ IsSpaceToken(NextOf(tokens, i))

\* the token loop without the skip of the typed space
tokenStride_NoSkip(tokens, i) == 1

tokenStride(tokens, i) == IF SkipsNext(tokens, i) THEN 2 ELSE 1

RECURSIVE placeAll(_, _, _, _, _)
placeAll(st, tokens, i, w, countSpaces) ==
    IF i >= Len(tokens) THEN st
    ELSE placeAll(placeToken(st, tokens[i + 1], NextOf(tokens, i), w, countSpaces),
                  tokens, i + tokenStride(tokens, i), w, countSpaces)

paraEnd(st, p, nParas, w) ==
    IF p # nParas - 1 THEN padToLineEnd(st, w) ELSE st

\* ------------------------------------------------------------------------
\* Count derivation
\* ------------------------------------------------------------------------
UsedCount(cells) == Cardinality({k \in 1..Len(cells) : cells[k].used})

LastUsedIndex(cells) ==
    LET U == {k \in 1..Len(cells) : cells[k].used} IN
    IF U = {} THEN 0 ELSE CHOOSE k \in U : \A j \in U : j <= k

\* CeilDiv rounding down, as Math.floor would
CeilDiv_Floor(a, b) == IF b > 0 THEN a \div b ELSE 0 - (a \div (0 - b))

\* Math.ceil(a / b) for a >= 0, b # 0
CeilDiv(a, b) == IF b > 0 THEN (a + b - 1) \div b ELSE 0 - (a \div (0 - b))

SheetCount(cells, w) ==
    LET last == LastUsedIndex(cells) IN
    IF last = 0 THEN 0 ELSE CeilDiv(last, w) * w

\* ------------------------------------------------------------------------
\* layout as a function of the paragraphs and the options
\* ------------------------------------------------------------------------
DefaultWidth == 20

\* Number(o.width) || 20 for a numeric width: 0 is falsy, every other
\* number, a negative one too, is kept
WidthOf(o) == IF o.width = 0 THEN DefaultWidth ELSE o.width

RECURSIVE layoutFrom(_, _, _, _, _)
layoutFrom(st, ps, p, o, w) ==
    IF p >= Len(ps) THEN padToLineEnd(st, w)
    ELSE LET para == ps[p + 1]
             s1 == paraStart(st, para, o.indentBoxes, w)
             toks == packDigits(tokenizeParagraph(para), o.digitsPerBox)
             s2 == placeAll(s1, toks, 0, w, o.countSpaces)
         IN  layoutFrom(paraEnd(s2, p, Len(ps), w), ps, p + 1, o, w)

layoutParas(ps, o) ==
    LET st == layoutFrom([cells |-> <<>>, col |-> 0], ps, 0, o, WidthOf(o)) IN
    [cells |-> st.cells,
     usedCount |-> UsedCount(st.cells),
     sheetCount |-> SheetCount(st.cells, WidthOf(o))]

layout(t, o) == layoutParas(Split(normalizeText(t)), o)

\* ------------------------------------------------------------------------
\* The inputs of a call
\* ------------------------------------------------------------------------
Texts ==
    UNION {[1..n -> CoreAlphabet] : n \in 0..MaxLen}
    \cup UNION {[1..n -> Alphabet] : n \in 0..(MaxLen - 1)}

BaseOpts == [width |-> 2, indentBoxes |-> 1, countSpaces |-> TRUE, digitsPerBox |-> 2]

\* the options: every width with the other defaults; no indent; a double
\* indent with one digit per box; spaces not counted
OptsSet ==
    {[BaseOpts EXCEPT !.width = w] : w \in 1..MaxWidth}
    \cup {[BaseOpts EXCEPT !.indentBoxes = 0]}
    \cup {[BaseOpts EXCEPT !.indentBoxes = 2, !.digitsPerBox = 1]}
    \cup {[BaseOpts EXCEPT !.countSpaces = FALSE]}

\* ------------------------------------------------------------------------
\* layout as a state machine: one call, stepped through its loops
\* ------------------------------------------------------------------------
\* text, opts: the arguments; paras, p: the paragraph loop; rawTokens, tokens:
\* the value of the local tokens after tokenizeParagraph and after packDigits;
\* i: the token loop; cells, col: the placer; result: the returned object
VARIABLES text, opts, paras, p, rawTokens, tokens, i, cells, col, pc, result

vars == <<text, opts, paras, p, rawTokens, tokens, i, cells, col, pc, result>>

width == WidthOf(opts)

St == [cells |-> cells, col |-> col]

NoResult == [cells |-> <<>>, usedCount |-> 0 - 1, sheetCount |-> 0 - 1]

\* the state of a call on reaching the paragraph loop
Init ==
    /\ text \in Texts
    /\ opts \in OptsSet
    /\ paras = Split(normalizeText(text))
    /\ p = 0
    /\ rawTokens = <<>>
    /\ tokens = <<>>
    /\ i = 0
    /\ cells = <<>>
    /\ col = 0
    /\ pc = "para"
    /\ result = NoResult

\* start of a paragraph: pad and indent, tokenize, pack the digits, and
\* enter the token loop
ParagraphStart ==
    /\ pc = "para"
    /\ p < Len(paras)
    /\ LET s1 == paraStart(St, paras[p + 1], opts.indentBoxes, width) IN
         /\ cells' = s1.cells
         /\ col' = s1.col
    /\ rawTokens' = tokenizeParagraph(paras[p + 1])
    /\ tokens' = packDigits(rawTokens', opts.digitsPerBox)
    /\ i' = 0
    /\ pc' = "tokens"
    /\ UNCHANGED <<text, opts, paras, p, result>>

\* one iteration of the token loop
TokenStep ==
    /\ pc = "tokens"
    /\ i < Len(tokens)
    /\ LET s1 == placeToken(St, tokens[i + 1], NextOf(tokens, i), width, opts.countSpaces) IN
         /\ cells' = s1.cells
         /\ col' = s1.col
    /\ i' = i + tokenStride(tokens, i)
    /\ UNCHANGED <<text, opts, paras, p, rawTokens, tokens, pc, result>>

\* end of a paragraph that is not the last
ParagraphEnd ==
    /\ pc = "tokens"
    /\ i >= Len(tokens)
    /\ p # Len(paras) - 1
    /\ LET s1 == paraEnd(St, p, Len(paras), width) IN
         /\ cells' = s1.cells
         /\ col' = s1.col
    /\ p' = p + 1
    /\ pc' = "para"
    /\ UNCHANGED <<text, opts, paras, rawTokens, tokens, i, result>>

\* end of the last paragraph: the final padding and the counts
Finish ==
    /\ pc = "tokens"
    /\ i >= Len(tokens)
    /\ p = Len(paras) - 1
    /\ LET s1 == padToLineEnd(paraEnd(St, p, Len(paras), width), width) IN
         /\ cells' = s1.cells
         /\ col' = s1.col
         /\ result' = [cells |-> s1.cells,
                       usedCount |-> UsedCount(s1.cells),
                       sheetCount |-> SheetCount(s1.cells, width)]
    /\ p' = p + 1
    /\ pc' = "done"
    /\ UNCHANGED <<text, opts, paras, rawTokens, tokens, i>>

Next == ParagraphStart \/ TokenStep \/ ParagraphEnd \/ Finish

Spec == Init /\ [][Next]_vars

\* ------------------------------------------------------------------------
\* The same call with the arguments as any caller may pass them: a text
\* that may be absent, a width that may be zero or negative, any indent
\* ------------------------------------------------------------------------
ArgTexts ==
    UNION {[1..n -> CoreAlphabet] : n \in 0..(MaxLen - 2)} \cup {Undefined, Null}

ArgOptsSet ==
    {[BaseOpts EXCEPT !.width = w, !.indentBoxes = n] :
        w \in (0 - MaxWidth)..MaxWidth, n \in 0..2}

InitArgs ==
    /\ text \in ArgTexts
    /\ opts \in ArgOptsSet
    /\ paras = Split(normalizeText(text))
    /\ p = 0
    /\ rawTokens = <<>>
    /\ tokens = <<>>
    /\ i = 0
    /\ cells = <<>>
    /\ col = 0
    /\ pc = "para"
    /\ result = NoResult

SpecArgs == InitArgs /\ [][Next]_vars

\* ------------------------------------------------------------------------
\* layout(text) with no options: DEFAULTS as they stand, width 20.  A text
\* is a run of letters long enough to reach the end of a 20-column row,
\* followed by a short tail over the core alphabet.
\* ------------------------------------------------------------------------
MaxLetters == 19

MaxSuffix == 2

DefaultOpts ==
    [width |-> DefaultWidth, indentBoxes |-> 1, countSpaces |-> TRUE,
     digitsPerBox |-> 2]

DefaultTexts ==
    {[k \in 1..n |-> "a"] \o tail :
        n \in 0..MaxLetters,
        tail \in UNION {[1..m -> CoreAlphabet] : m \in 0..MaxSuffix}}

InitDefault ==
    /\ text \in DefaultTexts
    /\ opts = DefaultOpts
    /\ paras = Split(normalizeText(text))
    /\ p = 0
    /\ rawTokens = <<>>
    /\ tokens = <<>>
    /\ i = 0
    /\ cells = <<>>
    /\ col = 0
    /\ pc = "para"
    /\ result = NoResult

SpecDefault == InitDefault /\ [][Next]_vars

\* ------------------------------------------------------------------------
\* Helpers of the properties
\* ------------------------------------------------------------------------
UsedBlank == makeCell(<<>>, TRUE)

Padding == makeCell(<<>>, FALSE)

RemoveAt(s, k) == SubSeq(s, 1, k - 1) \o SubSeq(s, k + 1, Len(s))

Rows(cs) == Len(cs) \div width

\* the current token of the token loop and its successor
Tok == tokens[i + 1]

Nxt == NextOf(tokens, i)

InTokenLoop == pc = "tokens" /\ i < Len(tokens)

\* ------------------------------------------------------------------------
\* C1: the cell sequence layout returns has a length that is an exact
\* multiple of width.
\* ------------------------------------------------------------------------
Thm_C1 == pc = "done" => Len(result.cells) % width = 0

\* a finished call whose last row was filled up by the final padToLineEnd
Wit_C1 ==
    /\ pc = "done"
    /\ width > 1
    /\ Len(result.cells) > 0
    /\ ~result.cells[Len(result.cells)].used

\* ------------------------------------------------------------------------
\* C2: an empty paragraph occupies a row of its own: the layout of a text
\* with a blank line between two line breaks has exactly one more row than
\* the layout of the same text without that blank line.
\* ------------------------------------------------------------------------
Claim_C2 ==
    pc = "done" =>
        \A k \in 2..(Len(paras) - 1) :
            paras[k] = <<>> =>
                Rows(result.cells) = Rows(layoutParas(RemoveAt(paras, k), opts).cells) + 1

\* ------------------------------------------------------------------------
\* C3: whenever placeToken places a two-box token, the glyph's cell and the
\* continuation marker's cell that follows it lie in the same row.
\* ------------------------------------------------------------------------
GlyphPlacedInOneRow ==
    LET n == Len(cells') IN
    /\ n >= Len(cells) + 2
    /\ cells'[n - 1] = makeCell(Tok, TRUE)
    /\ cells'[n] = makeCell(Str(MIDDOT), TRUE)
    /\ (n - 2) % width <= width - 2

\* C3 as claimed: for every width
Claim_C3 ==
    [][(InTokenLoop /\ Tok \in twoBoxTokens) => GlyphPlacedInOneRow]_vars

\* C3 as amended: for every width of at least 2
Thm_C3 ==
    [][(InTokenLoop /\ Tok \in twoBoxTokens /\ width >= 2) => GlyphPlacedInOneRow]_vars

\* in the first paragraph, a glyph that was moved to a fresh row: the cell
\* before it is the padding of the row it did not fit in
Wit_C3 ==
    /\ width >= 2
    /\ p = 0
    /\ \E k \in 2..(Len(cells) - 1) :
          /\ cells[k].char \in twoBoxTokens
          /\ cells[k + 1].char = Str(MIDDOT)
          /\ cells[k - 1] = Padding
          /\ (k - 1) % width = 0

\* ------------------------------------------------------------------------
\* C4: tokenizeParagraph emits every occurrence of the ellipsis glyph, at
\* any position of the paragraph, as one ellipsis token, and every other
\* character as one single-character token, in order.
\* ------------------------------------------------------------------------
RECURSIVE GreedyTokens(_)
GreedyTokens(s) ==
    IF s = <<>> THEN <<>>
    ELSE IF Len(s) >= 2 /\ SubSeq(s, 1, 2) = EllipsisToken
         THEN <<EllipsisToken>> \o GreedyTokens(SubSeq(s, 3, Len(s)))
         ELSE <<Str(s[1])>> \o GreedyTokens(Tail(s))

Claim_C4 == pc = "tokens" => rawTokens = GreedyTokens(paras[p + 1])

\* ------------------------------------------------------------------------
\* C5: a shareable punctuation placed at col = 0 after a used cell is
\* appended to that cell's content; the share itself adds no cell and leaves
\* col alone, and the only cell that may follow is the blank after ? or !.
\* ------------------------------------------------------------------------
SharePre ==
    /\ InTokenLoop
    /\ Tok \in shareablePunct
    /\ col = 0
    /\ Len(cells) > 0
    /\ cells[Len(cells)].used

Thm_C5 ==
    [][SharePre =>
        LET shared == [cells EXCEPT ![Len(cells)].char = @ \o Tok] IN
        IF Tok \in requireBlankAfter /\ Nxt # Undefined
        THEN cells' = Append(shared, UsedBlank) /\ col' = 1 % width
        ELSE cells' = shared /\ col' = col]_vars

\* a row that ended exactly on a letter now holds the letter and the period,
\* and the cell count is still the row's
Wit_C5 ==
    /\ pc = "tokens"
    /\ width >= 2
    /\ Len(cells) = width
    /\ cells[width].char = <<"a", ".">>
    /\ col = 0

\* ------------------------------------------------------------------------
\* C6: a shareable punctuation placed at col = 0 when no cell exists yet or
\* the previous cell is unused padding changes no existing cell and gets a
\* new used cell of its own at column 0.
\* ------------------------------------------------------------------------
RefusePre ==
    /\ InTokenLoop
    /\ Tok \in shareablePunct
    /\ col = 0
    /\ (Len(cells) = 0 \/ ~cells[Len(cells)].used)

Thm_C6 ==
    [][RefusePre =>
        LET n == Len(cells) IN
        /\ Len(cells') > n
        /\ SubSeq(cells', 1, n) = cells
        /\ cells'[n + 1] = makeCell(Tok, TRUE)
        /\ n % width = 0]_vars

\* a punctuation in a cell of its own at column 0, right after padding
Wit_C6 ==
    \E k \in 2..Len(cells) :
        /\ cells[k - 1] = Padding
        /\ cells[k].used
        /\ cells[k].char \in shareablePunct
        /\ (k - 1) % width = 0

\* ------------------------------------------------------------------------
\* C7: when ? or ! is placed, in its own cell or shared into the previous
\* one, and another token follows in the paragraph, the next cell emitted is
\* one used blank; when it is the paragraph's last token no blank is emitted.
\* ------------------------------------------------------------------------
Thm_C7 ==
    [][(InTokenLoop /\ Tok \in requireBlankAfter) =>
        LET n == Len(cells)
            m == Len(cells')
            shared == col = 0 /\ n > 0 /\ cells[n].used
            kept == IF shared THEN n - 1 ELSE n
            markCell == IF shared THEN [cells[n] EXCEPT !.char = @ \o Tok]
                        ELSE makeCell(Tok, TRUE)
        IN  /\ SubSeq(cells', 1, kept) = SubSeq(cells, 1, kept)
            /\ cells'[kept + 1] = markCell
            /\ IF Nxt # Undefined
               THEN m = kept + 2 /\ cells'[m] = UsedBlank
               ELSE m = kept + 1]_vars

\* a finished call in which one ! was shared into a row's last cell and
\* followed by its blank at the start of the next row, and a later ! ended
\* its paragraph with no blank after it
Wit_C7 ==
    /\ pc = "done"
    /\ width >= 2
    /\ Len(result.cells) > width
    /\ result.cells[width].char = <<"a", "!">>
    /\ result.cells[width + 1] = UsedBlank
    /\ LET last == LastUsedIndex(result.cells) IN
         /\ last > width + 1
         /\ result.cells[last].char # <<>>
         /\ result.cells[last].char[Len(result.cells[last].char)] = "!"

\* ------------------------------------------------------------------------
\* C8: a whitespace token that directly follows a token of the
\* blank-after set or of the no-typed-space-after set is skipped: it emits
\* no cell of its own.  So one used blank lies between ! and the next
\* character, and none between a period and the next character.
\* ------------------------------------------------------------------------
RulePunct == requireBlankAfter \cup forbidTypedSpaceAfter

OneCell(c) == makeCell(Str(c), TRUE)

Thm_C8 ==
    /\ [][(InTokenLoop /\ Tok \in RulePunct /\ IsSpaceToken(Nxt)) =>
            LET n == Len(cells)
                shared == col = 0 /\ n > 0 /\ cells[n].used
            IN  /\ i' = i + 2
                /\ Len(cells') = n + (IF shared THEN 0 ELSE 1)
                                   + (IF Tok \in requireBlankAfter THEN 1 ELSE 0)]_vars
    /\ [](InTokenLoop /\ i > 0 /\ IsSpaceToken(Tok) => tokens[i] \notin RulePunct)
    /\ []((pc = "done" /\ opts = [BaseOpts EXCEPT !.width = 3]) =>
            /\ text = <<"a", "!", SP, "a">> =>
                 result.cells = <<UsedBlank, OneCell("a"), OneCell("!"),
                                  UsedBlank, OneCell("a"), Padding>>
            /\ text = <<"a", ".", SP, "a">> =>
                 result.cells = <<UsedBlank, OneCell("a"), OneCell("."),
                                  OneCell("a"), Padding, Padding>>)

\* the loop stands behind the space typed after a !, mid-row with spaces
\* counted, and the last cell is the one blank of the !
Wit_C8 ==
    /\ pc = "tokens"
    /\ opts.countSpaces
    /\ i >= 2
    /\ i < Len(tokens)
    /\ IsSpaceToken(tokens[i])
    /\ tokens[i - 1] = Str("!")
    /\ Len(cells) >= 2
    /\ cells[Len(cells)] = UsedBlank
    /\ cells[Len(cells) - 1] = OneCell("!")
    /\ col # 0

\* ------------------------------------------------------------------------
\* C9: packDigits replaces every maximal run of digit tokens by groups of
\* exactly digitsPerBox digits, left to right, only the last group of a run
\* being shorter; other tokens pass through in place; the concatenation of
\* the tokens is unchanged.  Four digits with digitsPerBox = 2 become two
\* pairs, each placed in one used cell.
\* ------------------------------------------------------------------------
RECURSIVE Flatten(_)
Flatten(ts) == IF ts = <<>> THEN <<>> ELSE ts[1] \o Flatten(Tail(ts))

RECURSIVE DigitRunLen(_)
DigitRunLen(ts) ==
    IF ts = <<>> \/ ~IsDigitToken(ts[1]) THEN 0 ELSE 1 + DigitRunLen(Tail(ts))

RECURSIVE GroupRuns(_, _)
GroupRuns(ts, dpb) ==
    IF ts = <<>> THEN <<>>
    ELSE IF ~IsDigitToken(ts[1]) THEN <<ts[1]>> \o GroupRuns(Tail(ts), dpb)
    ELSE LET g == Min(DigitRunLen(ts), dpb) IN
         <<Flatten(SubSeq(ts, 1, g))>> \o GroupRuns(SubSeq(ts, g + 1, Len(ts)), dpb)

IsDigitGroup(t) == t # <<>> /\ \A k \in 1..Len(t) : t[k] \in Digits

Thm_C9 ==
    /\ pc = "tokens" =>
        /\ tokens = GroupRuns(rawTokens, opts.digitsPerBox)
        /\ Flatten(tokens) = Flatten(rawTokens)
        /\ \A k \in 1..Len(tokens) :
              IsDigitGroup(tokens[k]) =>
                  /\ Len(tokens[k]) <= opts.digitsPerBox
                  /\ (k < Len(tokens) /\ IsDigitGroup(tokens[k + 1]))
                        => Len(tokens[k]) = opts.digitsPerBox
    /\ (pc = "done" /\ text = <<"1", "1", "1", "1">> /\ opts = BaseOpts) =>
          result.cells = <<UsedBlank, makeCell(<<"1", "1">>, TRUE),
                           makeCell(<<"1", "1">>, TRUE), Padding>>

\* a run of three digits between other tokens, packed into a pair and a
\* single digit
Wit_C9 ==
    /\ pc = "tokens"
    /\ opts.digitsPerBox = 2
    /\ rawTokens = <<Str("1"), Str("1"), Str("1"), Str("a")>>
    /\ tokens = <<<<"1", "1">>, Str("1"), Str("a")>>
    /\ i = Len(tokens)

\* ------------------------------------------------------------------------
\* C10: a non-empty paragraph starts at column 0 of a row of its own with
\* its indent of used blank cells, emitted before any of its content; the
\* cells between the previous paragraph's content and it are unused padding
\* that fills the previous row.
\* ------------------------------------------------------------------------
Repeat(c, n) == [k \in 1..n |-> c]

Thm_C10 ==
    [][/\ (pc = "para" /\ p < Len(paras)) =>
            /\ col = 0
            /\ Len(cells) % width = 0
            /\ i' = 0
            /\ IF Len(paras[p + 1]) > 0
               THEN cells' = cells \o Repeat(UsedBlank, opts.indentBoxes)
               ELSE cells' = cells
       /\ (pc = "tokens" /\ i >= Len(tokens) /\ p # Len(paras) - 1) =>
            LET added == Len(cells') - Len(cells) IN
            /\ added \in 0..(width - 1)
            /\ cells' = cells \o Repeat(Padding, added)
            /\ Len(cells') % width = 0]_vars

\* a later paragraph that has just received its indent, right after the
\* padding of the previous paragraph's row
Wit_C10 ==
    /\ pc = "tokens"
    /\ i = 0
    /\ p >= 1
    /\ opts.indentBoxes >= 1
    /\ Len(paras[p + 1]) > 0
    /\ LET n == opts.indentBoxes
           m == Len(cells)
       IN  /\ m > n
           /\ (m - n) % width = 0
           /\ cells[m - n] = Padding
           /\ \A k \in (m - n + 1)..m : cells[k] = UsedBlank

\* ------------------------------------------------------------------------
\* C11: sheetCount is 0 exactly when no cell is used; otherwise it is the
\* 1-based index of the last used cell rounded up to a multiple of width: a
\* positive multiple of width, at least that index and less than width
\* above it.
\* ------------------------------------------------------------------------
IsLastUsed(cs, k) ==
    /\ k \in 1..Len(cs)
    /\ cs[k].used
    /\ \A j \in (k + 1)..Len(cs) : ~cs[j].used

Thm_C11 ==
    pc = "done" =>
        LET cs == result.cells
            sc == result.sheetCount
        IN  /\ sc = 0 <=> (\A k \in 1..Len(cs) : ~cs[k].used)
            /\ \A k \in 1..Len(cs) :
                  IsLastUsed(cs, k) =>
                      /\ sc > 0
                      /\ sc % width = 0
                      /\ sc >= k
                      /\ sc - k < width

\* a finished call whose last used cell is not the last of its row, so
\* that the rounding up adds to the index
Wit_C11 ==
    /\ pc = "done"
    /\ width >= 2
    /\ result.sheetCount >= 2 * width
    /\ \E k \in 1..Len(result.cells) :
          IsLastUsed(result.cells, k) /\ k % width # 0

\* ------------------------------------------------------------------------
\* C12: a call with a width that is zero or negative returns what the call
\* with width 20 returns: the same cells, usedCount and sheetCount.
\* ------------------------------------------------------------------------
Claim_C12 ==
    (pc = "done" /\ opts.width <= 0) =>
        result = layoutParas(paras, [opts EXCEPT !.width = DefaultWidth])

\* ------------------------------------------------------------------------
\* C14: the layout of the empty string and of an absent text has
\* usedCount = 0, sheetCount = 0 and no used cell, for every width and
\* indent.
\* ------------------------------------------------------------------------
Thm_C14 ==
    (pc = "done" /\ text \in {<<>>, Undefined, Null}) =>
        /\ result.usedCount = 0
        /\ result.sheetCount = 0
        /\ \A k \in 1..Len(result.cells) : ~result.cells[k].used

\* a finished call on an absent text with an indent configured
Wit_C14 ==
    /\ pc = "done"
    /\ text = Undefined
    /\ opts.indentBoxes = 2
    /\ result.usedCount = 0
    /\ result.sheetCount = 0

\* ------------------------------------------------------------------------
\* C13: texts that differ only in how each line break is written (LF, CR
\* or CR LF) have the same layout result; a CR LF pair is one paragraph
\* boundary, and there is one paragraph more than there are line breaks.
\* ------------------------------------------------------------------------
IsBreakPair(s) == Len(s) >= 2 /\ s[1] = CR /\ s[2] = LF

\* the text with every line break written as brk, read in one pass
RECURSIVE WithBreaks(_, _)
WithBreaks(s, brk) ==
    IF s = <<>> THEN <<>>
    ELSE IF IsBreakPair(s) THEN brk \o WithBreaks(SubSeq(s, 3, Len(s)), brk)
    ELSE IF s[1] \in {CR, LF} THEN brk \o WithBreaks(Tail(s), brk)
    ELSE <<s[1]>> \o WithBreaks(Tail(s), brk)

RECURSIVE NumBreaks(_)
NumBreaks(s) ==
    IF s = <<>> THEN 0
    ELSE IF IsBreakPair(s) THEN 1 + NumBreaks(SubSeq(s, 3, Len(s)))
    ELSE IF s[1] \in {CR, LF} THEN 1 + NumBreaks(Tail(s))
    ELSE NumBreaks(Tail(s))

Thm_C13 ==
    pc = "done" =>
        /\ Len(paras) = NumBreaks(text) + 1
        /\ NumBreaks(text) > 0 =>
              \A brk \in {<<LF>>, <<CR>>, <<CR, LF>>} :
                  layout(WithBreaks(text, brk), opts) = result

\* a finished call on a text with a CR LF pair between two paragraphs
Wit_C13 ==
    /\ pc = "done"
    /\ Len(paras) = 2
    /\ result.usedCount > 0
    /\ \E k \in 1..(Len(text) - 1) : text[k] = CR /\ text[k + 1] = LF

\* ------------------------------------------------------------------------
\* C15: the contents of the used cells, read in cell order without the
\* continuation-marker cells, spell the text's characters other than space,
\* tab and line breaks, in order, each once.
\* ------------------------------------------------------------------------
IsTextChar(c) == c \notin {SP, TAB, LF, CR}

TextChars(s) == SelectSeq(s, IsTextChar)

IsMarkerCell(c) == c.char # <<>> /\ c.char[1] = MIDDOT

RECURSIVE ReadCells(_, _)
ReadCells(cs, dropMarkerCells) ==
    IF cs = <<>> THEN <<>>
    ELSE IF ~cs[1].used \/ (dropMarkerCells /\ IsMarkerCell(cs[1]))
         THEN ReadCells(Tail(cs), dropMarkerCells)
         ELSE cs[1].char \o ReadCells(Tail(cs), dropMarkerCells)

NotMarker(c) == c # MIDDOT

\* C15 as claimed: the marker cells are dropped whole
Claim_C15 ==
    pc = "done" => ReadCells(result.cells, TRUE) = TextChars(text)

\* C15 as amended: only the marker character of a marker cell is dropped, a
\* punctuation shared into that cell is read
Thm_C15 ==
    pc = "done" =>
        SelectSeq(ReadCells(result.cells, FALSE), NotMarker) = TextChars(text)

\* a finished call in which a period was shared into the marker cell of a
\* dash that ended its row
Wit_C15 ==
    /\ pc = "done"
    /\ \E k \in 2..Len(result.cells) :
          /\ result.cells[k - 1] = makeCell(Str(DASH), TRUE)
          /\ result.cells[k] = makeCell(<<MIDDOT, ".">>, TRUE)
          /\ k % width = 0

\* ------------------------------------------------------------------------
\* C16: placing a space or tab token when spaces are not counted, or at
\* col = 0, leaves the cells and col unchanged; in every other state it
\* appends exactly one used cell with empty content.
\* ------------------------------------------------------------------------
Thm_C16 ==
    [][(InTokenLoop /\ IsSpaceToken(Tok)) =>
        IF ~opts.countSpaces \/ col = 0
        THEN cells' = cells /\ col' = col
        ELSE cells' = Append(cells, UsedBlank) /\ col' = (col + 1) % width]_vars

\* the loop has just placed a tab typed after a letter, mid-row, and then
\* passed over a second tab that stood at the start of a row
Wit_C16 ==
    /\ pc = "tokens"
    /\ opts.countSpaces
    /\ i = 3
    /\ tokens[1] = Str("a")
    /\ tokens[2] = Str(TAB)
    /\ tokens[3] = Str(TAB)
    /\ col = 0
    /\ Len(cells) >= 2
    /\ cells[Len(cells)] = UsedBlank
    /\ cells[Len(cells) - 1] = OneCell("a")

\* ------------------------------------------------------------------------
\* C17: every step keeps every emitted cell: none is removed, every cell
\* but the last is unchanged, and the last is either unchanged or is a used
\* cell that stays used and gets one shareable punctuation character
\* appended to its content.
\* ------------------------------------------------------------------------
SharedInto(before, after) ==
    /\ before.used
    /\ after.used
    /\ \E punct \in shareablePunct : after.char = before.char \o punct

Thm_C17 ==
    [][/\ Len(cells') >= Len(cells)
       /\ \A k \in 1..Len(cells) :
             \/ cells'[k] = cells[k]
             \/ k = Len(cells) /\ SharedInto(cells[k], cells'[k])]_vars

\* an exclamation mark was shared into the letter that closed the first
\* row, and the cells emitted after it left that cell as the share made it
Wit_C17 ==
    /\ pc = "tokens"
    /\ width >= 2
    /\ Len(cells) = width + 2
    /\ cells[width] = makeCell(<<"a", "!">>, TRUE)
    /\ cells[width + 1] = UsedBlank
    /\ cells[width + 2] = OneCell("a")

\* ------------------------------------------------------------------------
\* C18: with the default configuration, in every reachable state, a cell
\* that is not in the last column of its row holds at most two characters,
\* two only for a digit pair or the two-character ellipsis token; a cell in
\* the last column holds such a content followed by the shareable
\* punctuation characters that sharing appended to it, any number of them.
\* ------------------------------------------------------------------------
PlainContent(c) ==
    \/ Len(c) <= 1
    \/ /\ Len(c) = 2
       /\ \/ c[1] \in Digits /\ c[2] \in Digits
          \/ c = EllipsisToken

SharedContent(c) ==
    \E j \in 0..Len(c) :
        /\ PlainContent(SubSeq(c, 1, j))
        /\ \A k \in (j + 1)..Len(c) : Str(c[k]) \in shareablePunct

\* the claim as stated: no cell ever holds more than a plain content
Claim_C18 ==
    \A k \in 1..Len(cells) : PlainContent(cells[k].char)

Thm_C18 ==
    \A k \in 1..Len(cells) :
        IF k % width = 0
        THEN SharedContent(cells[k].char)
        ELSE PlainContent(cells[k].char)

\* the 20th cell of the first row holds a letter and two periods
Wit_C18 ==
    /\ opts = DefaultOpts
    /\ Len(cells) = DefaultWidth
    /\ cells[DefaultWidth] = makeCell(<<"a", ".", ".">>, TRUE)

\* ------------------------------------------------------------------------
\* C19: in the final result, for every text and positive width, every cell
\* with used = false has empty content, and every cell after it in the
\* same row is unused too.
\* ------------------------------------------------------------------------
RowOf(k) == (k - 1) \div width

Thm_C19 ==
    pc = "done" =>
        LET cs == result.cells IN
        \A k \in 1..Len(cs) :
            ~cs[k].used =>
                /\ cs[k].char = <<>>
                /\ \A j \in (k + 1)..Len(cs) :
                      RowOf(j) = RowOf(k) => ~cs[j].used

\* a paragraph that wrapped: its second row starts with a letter and is
\* filled by two unused cells
Wit_C19 ==
    /\ pc = "done"
    /\ width = 3
    /\ Len(result.cells) = 6
    /\ result.cells[4] = OneCell("a")
    /\ result.cells[5] = Padding
    /\ result.cells[6] = Padding

====
